---- MODULE Spec2Model ----
(***************************************************************************)
(* A model of torchgeometry/core/pinhole.py: the PinholeCamera and         *)
(* PinholeCamerasList classes over a heap of tensor storages.              *)
(*                                                                         *)
(* A tensor is a view (storage id, shape, offset, strides) of a flat       *)
(* storage, as in torch: indexing returns a view of the same storage,      *)
(* clone() and stack() allocate a new storage, and the in-place operators  *)
(* write through the view.  Values are integers (floats holding integral   *)
(* values are exact here).                                                 *)
(***************************************************************************)
EXTENDS Integers, Sequences, FiniteSets, TLC

VARIABLES heap, cams, lists, last

vars == <<heap, cams, lists, last>>

(***************************************************************************)
(* Bounds of the model.                                                    *)
(***************************************************************************)
MaxSteps == 3

BatchSizes == {1, 2}

(***************************************************************************)
(* Shapes and indices.                                                     *)
(***************************************************************************)
RECURSIVE Numel(_)
Numel(shape) ==
    IF shape = <<>> THEN 1 ELSE Head(shape) * Numel(Tail(shape))

RECURSIVE ContigStrides(_)
ContigStrides(shape) ==
    IF shape = <<>> THEN <<>>
    ELSE <<Numel(Tail(shape))>> \o ContigStrides(Tail(shape))

RECURSIVE Indices(_)
Indices(shape) ==
    IF shape = <<>> THEN {<<>>}
    ELSE {<<i>> \o rest : i \in 0 .. Head(shape) - 1, rest \in Indices(Tail(shape))}

\* The n-th (0-based) multi-index of a shape in row-major order.
RECURSIVE Unravel(_, _)
Unravel(shape, n) ==
    IF shape = <<>> THEN <<>>
    ELSE <<n \div Numel(Tail(shape))>> \o Unravel(Tail(shape), n % Numel(Tail(shape)))

RECURSIVE Dot(_, _)
Dot(idx, strides) ==
    IF idx = <<>> THEN 0 ELSE Head(idx) * Head(strides) + Dot(Tail(idx), Tail(strides))

Rank(shape) == Len(shape)

Prefix(s, n) == SubSeq(s, 1, n)

Suffix(s, n) == SubSeq(s, Len(s) - n + 1, Len(s))

(***************************************************************************)
(* Tensors: views of a storage.                                            *)
(***************************************************************************)
Tensor(sid, shape, off, strides) ==
    [sid |-> sid, shape |-> shape, off |-> off, strides |-> strides]

Addr(t, idx) == t.off + Dot(idx, t.strides)

At(h, t, idx) == h[t.sid][Addr(t, idx) + 1]

\* The value of a tensor: its elements by multi-index.
Value(h, t) == [idx \in Indices(t.shape) |-> At(h, t, idx)]

\* Python index normalisation: a negative index counts from the end.
NormIndex(i, size) == IF i < 0 THEN i + size ELSE i

InRangeNonNegative(i, size) == i >= 0 /\ i < size

InRange(i, size) == i >= -size /\ i < size

\* t[..., r, c]
SelectLast2(t, r, c) ==
    LET n == Rank(t.shape)
    IN  Tensor(t.sid, Prefix(t.shape, n - 2),
               t.off + NormIndex(r, t.shape[n - 1]) * t.strides[n - 1]
                     + NormIndex(c, t.shape[n]) * t.strides[n],
               Prefix(t.strides, n - 2))

\* t[..., i]
SelectLast(t, i) ==
    LET n == Rank(t.shape)
    IN  Tensor(t.sid, Prefix(t.shape, n - 1),
               t.off + NormIndex(i, t.shape[n]) * t.strides[n],
               Prefix(t.strides, n - 1))

\* t[:, i]
SelectDim1(t, i) ==
    Tensor(t.sid, <<t.shape[1]>> \o SubSeq(t.shape, 3, Rank(t.shape)),
           t.off + NormIndex(i, t.shape[2]) * t.strides[2],
           <<t.strides[1]>> \o SubSeq(t.strides, 3, Rank(t.strides)))

(***************************************************************************)
(* Operands (a Python number, or a tensor argument the method only reads): *)
(* a shape and its data in row-major order.                                *)
(***************************************************************************)
Operand(shape, data) == [shape |-> shape, data |-> data]

Scalar(v) == Operand(<<>>, <<v>>)

\* Broadcasting an operand of shape fs onto a target of shape ts, in place:
\* the trailing dimensions are aligned, each being equal or 1 in the operand.
BroadcastsTo(fs, ts) ==
    /\ Rank(fs) <= Rank(ts)
    /\ \A k \in 1 .. Rank(fs) :
          fs[k] = 1 \/ fs[k] = ts[Rank(ts) - Rank(fs) + k]

\* The operand's element that target index idx reads.
OperandAt(f, idx) ==
    LET own == Suffix(idx, Rank(f.shape))
        pos == [k \in 1 .. Rank(f.shape) |-> IF f.shape[k] = 1 THEN 0 ELSE own[k]]
    IN  f.data[Dot(pos, ContigStrides(f.shape)) + 1]

Apply(op, x, y) ==
    CASE op = "mul" -> x * y
      [] op = "add" -> x + y
      [] op = "set" -> y

\* Evaluates e once and gives its value to F.
Bind(e, F(_)) == CHOOSE r \in {F(x) : x \in {e}} : TRUE

\* view op= f on the storage's data: the elements of the view, from the n-th
\* in row-major order on, are written one by one.
RECURSIVE Write(_, _, _, _, _)
Write(data, t, op, f, n) ==
    IF n >= Numel(t.shape) THEN data
    ELSE LET idx == Unravel(t.shape, n)
             a == Addr(t, idx) + 1
         IN  Write([data EXCEPT ![a] = Apply(op, @, OperandAt(f, idx))], t, op, f, n + 1)

\* view op= f: writes through the view into its storage.
InPlace(h, t, op, f) ==
    [h EXCEPT ![t.sid] = Write(@, t, op, f, 0)]

\* The contiguous tensor that is the whole of storage sid.
Contiguous(sid, shape) == Tensor(sid, shape, 0, ContigStrides(shape))

\* The data of t.clone(): the elements of t in row-major order.
CloneData(h, t) ==
    [n \in 1 .. Numel(t.shape) |-> At(h, t, Unravel(t.shape, n - 1))]

\* The data of torch.zeros(shape)
ZerosData(shape) == [n \in 1 .. Numel(shape) |-> 0]

\* The data of torch.eye(4).repeat(B, 1, 1)
EyeRepeatData(B) ==
    [n \in 1 .. B * 16 |->
        LET idx == Unravel(<<B, 4, 4>>, n - 1)
        IN  IF idx[2] = idx[3] THEN 1 ELSE 0]

\* f * t as a new tensor (broadcast both ways; the operand has no more
\* dimensions than the tensor).
MulCompatible(fs, ts) ==
    /\ Rank(fs) <= Rank(ts)
    /\ \A k \in 1 .. Rank(fs) :
          LET d == ts[Rank(ts) - Rank(fs) + k]
          IN  fs[k] = d \/ fs[k] = 1 \/ d = 1

MulShape(fs, ts) ==
    [k \in 1 .. Rank(ts) |->
        LET j == k - (Rank(ts) - Rank(fs))
        IN  IF j >= 1 /\ ts[k] = 1 THEN fs[j] ELSE ts[k]]

MulData(h, f, t) ==
    LET shape == MulShape(f.shape, t.shape)
    IN  [n \in 1 .. Numel(shape) |->
            LET idx == Unravel(shape, n - 1)
                own == [k \in 1 .. Rank(t.shape) |-> IF t.shape[k] = 1 THEN 0 ELSE idx[k]]
            IN  OperandAt(f, idx) * At(h, t, own)]

\* torch.stack(ts, dim=1) of tensors of one shape.
Stackable(ts) ==
    /\ ts # <<>>
    /\ \A i \in 1 .. Len(ts) : ts[i].shape = ts[1].shape
    /\ Rank(ts[1].shape) >= 1

StackShape(ts) == <<ts[1].shape[1], Len(ts)>> \o Tail(ts[1].shape)

StackDataReversed(h, ts) ==
    [n \in 1 .. Numel(StackShape(ts)) |->
        LET idx == Unravel(StackShape(ts), n - 1)
        IN  At(h, ts[Len(ts) - idx[2]], <<idx[1]>> \o SubSeq(idx, 3, Len(idx)))]

StackData(h, ts) ==
    [n \in 1 .. Numel(StackShape(ts)) |->
        LET idx == Unravel(StackShape(ts), n - 1)
        IN  At(h, ts[idx[2] + 1], <<idx[1]>> \o SubSeq(idx, 3, Len(idx)))]

(***************************************************************************)
(* PinholeCamera.  An object is a record of its four tensor attributes; a  *)
(* method is an operator from the heap and its arguments to                *)
(*   [heap, err, cam]: the heap after the call, the exception raised ("" if*)
(* none) and the camera returned.                                          *)
(***************************************************************************)
OK == ""

NoTensor == Tensor(0, <<>>, 0, <<>>)

Camera(K, E, h, w) == [K |-> K, E |-> E, h |-> h, w |-> w]

NoCam == Camera(NoTensor, NoTensor, NoTensor, NoTensor)

\* ref says whether the camera returned is a new object or the receiver.
Result(h, err, cam) == [heap |-> h, err |-> err, cam |-> cam, ref |-> "new"]

ReturnSelf(h, err, c) ==
    [heap |-> h, err |-> err, cam |-> IF err = OK THEN c ELSE NoCam, ref |-> "self"]

\* _check_valid: all(data.shape[0] for data in data_iter), the truth value of
\* each leading size, in order.
RECURSIVE CheckValid(_)
CheckValid(shapes) ==
    IF shapes = <<>> THEN OK
    ELSE IF Rank(Head(shapes)) = 0 THEN "IndexError"
    ELSE IF Head(shapes)[1] = 0 THEN "ValueError"
    ELSE CheckValid(Tail(shapes))

\* data.shape[-2:] is (4, 4): object identity of a torch.Size slice and a
\* tuple literal, which are never one object.
IsLiteral44(shape) == FALSE

\* _check_valid_params
CheckValidParams(shape) ==
    IF Rank(shape) \notin {3, 4} /\ ~IsLiteral44(shape)
    THEN "ValueError" ELSE OK

\* _check_valid_shape
CheckValidShape(shape) ==
    IF ~(Rank(shape) = 1) THEN "ValueError" ELSE OK

\* The first exception of a sequence of checks.
RECURSIVE FirstError(_)
FirstError(errs) ==
    IF errs = <<>> THEN OK
    ELSE IF Head(errs) # OK THEN Head(errs)
    ELSE FirstError(Tail(errs))

\* PinholeCamera.__init__
CameraInit(h, K, E, height, width) ==
    LET err == FirstError(<<CheckValid(<<K.shape, E.shape, height.shape, width.shape>>),
                            CheckValidParams(K.shape),
                            CheckValidParams(E.shape),
                            CheckValidShape(height.shape),
                            CheckValidShape(width.shape)>>)
    IN  IF err # OK THEN Result(h, err, NoCam)
        ELSE Result(h, OK, Camera(K, E, height, width))

\* The intrinsics and extrinsics properties: the exception of reading them.
ReadIntrinsics(c) == CheckValidParams(c.K.shape)

ReadExtrinsics(c) == CheckValidParams(c.E.shape)

\* batch_size
BatchSize(c) == c.K.shape[1]

\* fx, fy, cx, cy, tx, ty, tz: views of the matrices.
Fx(c) == SelectLast2(c.K, 0, 0)

Fy(c) == SelectLast2(c.K, 1, 1)

Cx(c) == SelectLast2(c.K, 0, 2)

Cy(c) == SelectLast2(c.K, 1, 2)

Tx(c) == SelectLast2(c.E, 0, -1)

Ty(c) == SelectLast2(c.E, 1, -1)

Tz(c) == SelectLast2(c.E, 2, -1)

\* A sequence of in-place statements view op= f, stopping at the first that
\* raises (the operand does not broadcast to the view).
RECURSIVE InPlaceAll(_, _, _, _)
InPlaceAll(h, views, op, f) ==
    IF views = <<>> THEN Result(h, OK, NoCam)
    ELSE IF ~BroadcastsTo(f.shape, Head(views).shape)
    THEN Result(h, "RuntimeError", NoCam)
    ELSE LET Rest(h2) == InPlaceAll(h2, Tail(views), op, f)
         IN  Bind(InPlace(h, Head(views), op, f), Rest)

\* A copy that shares the tensors of the original.
CloneShallow(h, c) == CameraInit(h, c.K, c.E, c.h, c.w)

\* PinholeCamera.clone
Clone(h, c) ==
    IF FirstError(<<ReadIntrinsics(c), ReadExtrinsics(c)>>) # OK
    THEN Result(h, FirstError(<<ReadIntrinsics(c), ReadExtrinsics(c)>>), NoCam)
    ELSE LET n == Len(h)
             height == Contiguous(n + 1, c.h.shape)
             width == Contiguous(n + 2, c.w.shape)
             intrinsics == Contiguous(n + 3, c.K.shape)
             extrinsics == Contiguous(n + 4, c.E.shape)
         IN  CameraInit(h \o <<CloneData(h, c.h), CloneData(h, c.w),
                               CloneData(h, c.K), CloneData(h, c.E)>>,
                        intrinsics, extrinsics, height, width)

\* The tensor that scale() scales: self.intrinsics.clone(), in the storage
\* allocated next.
ScaleIntrinsicsAliased(h, c) == c.K

ScaleIntrinsics(h, c) == Contiguous(Len(h) + 1, c.K.shape)

\* The entries of the intrinsics k that scale() multiplies.
ScaledEntriesNoCy(k) ==
    <<SelectLast2(k, 0, 0), SelectLast2(k, 1, 1), SelectLast2(k, 0, 2)>>

ScaledEntries(k) ==
    <<SelectLast2(k, 0, 0), SelectLast2(k, 1, 1), SelectLast2(k, 0, 2),
      SelectLast2(k, 1, 2)>>

\* PinholeCamera.scale (the temporaries self.height.clone() and
\* self.width.clone() are dropped with the call and get no storage here).
Scale(h, c, f) ==
    IF ReadIntrinsics(c) # OK THEN Result(h, ReadIntrinsics(c), NoCam)
    ELSE LET n == Len(h)
             intrinsics == ScaleIntrinsics(h, c)
             height == Contiguous(n + 2, MulShape(f.shape, c.h.shape))
             width == Contiguous(n + 3, MulShape(f.shape, c.w.shape))
             Rest(scaled) ==
                 IF scaled.err # OK THEN Result(h, scaled.err, NoCam)
                 ELSE IF ~MulCompatible(f.shape, c.h.shape)
                         \/ ~MulCompatible(f.shape, c.w.shape)
                 THEN Result(h, "RuntimeError", NoCam)
                 ELSE IF ReadExtrinsics(c) # OK THEN Result(h, ReadExtrinsics(c), NoCam)
                 ELSE CameraInit(scaled.heap \o <<MulData(h, f, c.h), MulData(h, f, c.w)>>,
                                 intrinsics, c.E, height, width)
         IN  Bind(InPlaceAll(Append(h, CloneData(h, c.K)),
                             ScaledEntries(intrinsics), "mul", f),
                  Rest)

\* The tensors that scale_() multiplies, in the order of its statements.
InPlaceTargetsNoWidth(c) == ScaledEntries(c.K) \o <<c.h>>

InPlaceTargets(c) == ScaledEntries(c.K) \o <<c.h, c.w>>

\* PinholeCamera.scale_: returns self; what it has written before an
\* exception stays written.
ScaleInPlace(h, c, f) ==
    IF ReadIntrinsics(c) # OK THEN ReturnSelf(h, ReadIntrinsics(c), c)
    ELSE LET Rest(done) == ReturnSelf(done.heap, done.err, c)
         IN  Bind(InPlaceAll(h, InPlaceTargets(c), "mul", f), Rest)

\* The tx, ty and tz setters: self.extrinsics[..., row, -1] = value
SetTranslation(h, c, row, value) ==
    IF ReadExtrinsics(c) # OK THEN ReturnSelf(h, ReadExtrinsics(c), c)
    ELSE LET Rest(done) == ReturnSelf(done.heap, done.err, c)
         IN  Bind(InPlaceAll(h, <<SelectLast2(c.E, row, -1)>>, "set", value), Rest)

\* A sequence of statements view += number.
RECURSIVE AddAll(_, _)
AddAll(h, writes) ==
    IF writes = <<>> THEN h
    ELSE LET Rest(h2) == AddAll(h2, Tail(writes))
         IN  Bind(InPlace(h, Head(writes)[1], "add", Scalar(Head(writes)[2])), Rest)

\* The statements view += number of from_parameters on the camera matrix.
IntrinsicsWritesNoPadding(intrinsics, p) ==
    << <<SelectLast2(intrinsics, 0, 0), p.fx>>,
       <<SelectLast2(intrinsics, 1, 1), p.fy>>,
       <<SelectLast2(intrinsics, 0, 2), p.cx>>,
       <<SelectLast2(intrinsics, 1, 2), p.cy>>,
       <<SelectLast2(intrinsics, 2, 2), 1>> >>

IntrinsicsWrites(intrinsics, p) ==
    << <<SelectLast2(intrinsics, 0, 0), p.fx>>,
       <<SelectLast2(intrinsics, 1, 1), p.fy>>,
       <<SelectLast2(intrinsics, 0, 2), p.cx>>,
       <<SelectLast2(intrinsics, 1, 2), p.cy>>,
       <<SelectLast2(intrinsics, 2, 2), 1>>,
       <<SelectLast2(intrinsics, 3, 3), 1>> >>

\* Those on the pose matrix.
ExtrinsicsWrites(extrinsics, p) ==
    << <<SelectLast2(extrinsics, 0, -1), p.tx>>,
       <<SelectLast2(extrinsics, 1, -1), p.ty>>,
       <<SelectLast2(extrinsics, 2, -1), p.tz>> >>

\* Those on the image height and width: height_tmp[..., 0] += height
SizeWrites(height_tmp, width_tmp, p) ==
    << <<SelectLast(height_tmp, 0), p.height>>,
       <<SelectLast(width_tmp, 0), p.width>> >>

\* PinholeCamera.from_parameters
FromParameters(h, p, B) ==
    LET n == Len(h)
        intrinsics == Contiguous(n + 1, <<B, 4, 4>>)
        extrinsics == Contiguous(n + 2, <<B, 4, 4>>)
        height_tmp == Contiguous(n + 3, <<B>>)
        width_tmp == Contiguous(n + 4, <<B>>)
        created == h \o <<ZerosData(<<B, 4, 4>>), EyeRepeatData(B),
                          ZerosData(<<B>>), ZerosData(<<B>>)>>
        writes == IntrinsicsWrites(intrinsics, p) \o ExtrinsicsWrites(extrinsics, p)
                      \o SizeWrites(height_tmp, width_tmp, p)
    IN  CameraInit(AddAll(created, writes), intrinsics, extrinsics, height_tmp, width_tmp)

(***************************************************************************)
(* PinholeCamerasList: the same four attributes with the camera axis at    *)
(* position 1.                                                             *)
(***************************************************************************)
\* PinholeCamerasList._initialize_parameters (called by __init__), for a
\* list or tuple of PinholeCamera objects.
InitializeParameters(h, pinholes) ==
    LET N == Len(pinholes)
        n == Len(h)
        reads == [i \in 1 .. 2 * N |->
                    IF i % 2 = 1 THEN ReadIntrinsics(pinholes[(i + 1) \div 2])
                    ELSE ReadExtrinsics(pinholes[i \div 2])]
        hs == [i \in 1 .. N |-> pinholes[i].h]
        ws == [i \in 1 .. N |-> pinholes[i].w]
        Ks == [i \in 1 .. N |-> pinholes[i].K]
        Es == [i \in 1 .. N |-> pinholes[i].E]
    IN  IF FirstError(reads) # OK THEN Result(h, FirstError(reads), NoCam)
        ELSE IF ~(Stackable(hs) /\ Stackable(ws) /\ Stackable(Ks) /\ Stackable(Es))
        THEN Result(h, "RuntimeError", NoCam)
        ELSE Result(h \o <<StackData(h, hs), StackData(h, ws),
                           StackData(h, Ks), StackData(h, Es)>>,
                    OK,
                    Camera(Contiguous(n + 3, StackShape(Ks)),
                           Contiguous(n + 4, StackShape(Es)),
                           Contiguous(n + 1, StackShape(hs)),
                           Contiguous(n + 2, StackShape(ws))))

\* PinholeCamerasList.num_cameras (-2 stands for the ValueError that reading
\* self.intrinsics raises).
NumCameras(l) ==
    IF ReadIntrinsics(l) # OK THEN -2 ELSE l.K.shape[2]

\* get_pinhole returning copies of the slices.
GetPinholeCopy(h, l, idx) ==
    IF ~InRange(idx, l.h.shape[Rank(l.h.shape)]) THEN Result(h, "IndexError", NoCam)
    ELSE IF ReadIntrinsics(l) # OK THEN Result(h, ReadIntrinsics(l), NoCam)
    ELSE IF ReadExtrinsics(l) # OK THEN Result(h, ReadExtrinsics(l), NoCam)
    ELSE LET n == Len(h)
             K == SelectDim1(l.K, idx)
             E == SelectDim1(l.E, idx)
             height == SelectLast(l.h, idx)
             width == SelectLast(l.w, idx)
         IN  CameraInit(h \o <<CloneData(h, K), CloneData(h, E),
                               CloneData(h, height), CloneData(h, width)>>,
                        Contiguous(n + 1, K.shape), Contiguous(n + 2, E.shape),
                        Contiguous(n + 3, height.shape), Contiguous(n + 4, width.shape))

\* PinholeCamerasList.get_pinhole
GetPinhole(h, l, idx) ==
    IF ~InRange(idx, l.h.shape[Rank(l.h.shape)]) THEN Result(h, "IndexError", NoCam)
    ELSE IF ~InRange(idx, l.w.shape[Rank(l.w.shape)]) THEN Result(h, "IndexError", NoCam)
    ELSE IF ReadIntrinsics(l) # OK THEN Result(h, ReadIntrinsics(l), NoCam)
    ELSE IF ~InRange(idx, l.K.shape[2]) THEN Result(h, "IndexError", NoCam)
    ELSE IF ReadExtrinsics(l) # OK THEN Result(h, ReadExtrinsics(l), NoCam)
    ELSE IF ~InRange(idx, l.E.shape[2]) THEN Result(h, "IndexError", NoCam)
    ELSE CameraInit(h, SelectDim1(l.K, idx), SelectDim1(l.E, idx),
                    SelectLast(l.h, idx), SelectLast(l.w, idx))

(***************************************************************************)
(* The callers' inputs.                                                    *)
(***************************************************************************)
\* The data of the sid-th tensor, one the caller builds: distinct elements,
\* distinct from those of the tensors built before it.
CallerData(sid, shape) == [n \in 1 .. Numel(shape) |-> 100 * sid + n]

ValidShapes(B) == <<<<B, 4, 4>>, <<B, 4, 4>>, <<B>>, <<B>>>>

MatrixShapes ==
    {<<2, 4, 4>>, <<3, 4, 4>>, <<2, 5, 5>>, <<4, 4>>, <<2, 2, 4, 4>>,
     <<1, 2, 2, 4, 4>>, <<0, 4, 4>>}

VectorShapes == {<<2>>, <<3>>, <<2, 1>>, <<>>}

\* The shapes of the four constructor arguments: those of a camera of batch
\* size 2 with one argument's shape replaced.
CtorCases ==
    {[ValidShapes(2) EXCEPT ![1] = s] : s \in MatrixShapes}
        \cup {[ValidShapes(2) EXCEPT ![2] = s] : s \in MatrixShapes}
        \cup {[ValidShapes(2) EXCEPT ![3] = s] : s \in VectorShapes}
        \cup {[ValidShapes(2) EXCEPT ![4] = s] : s \in VectorShapes}

Params(fx, fy, cx, cy, height, width, tx, ty, tz) ==
    [fx |-> fx, fy |-> fy, cx |-> cx, cy |-> cy, height |-> height,
     width |-> width, tx |-> tx, ty |-> ty, tz |-> tz]

NoParams == Params(0, 0, 0, 0, 0, 0, 0, 0, 0)

ParamSets ==
    {Params(fx, fy, cx, cy, 100, 80, tx, 2, 3) :
        fx \in {100, 120}, fy \in {100, 90}, cx \in {50, 0}, cy \in {50, 40},
        tx \in {1, -1}}

\* Scale factors: a tensor of shape (1) and a tensor of shape (2).
Factors == {Operand(<<1>>, <<3>>), Operand(<<2>>, <<2, 3>>)}

\* Translation components to set.
Translations == {Scalar(7)}

(***************************************************************************)
(* The state: the heap of storages, the camera objects and camera lists    *)
(* built so far (an object's identity is its position), and the last call  *)
(* with its arguments and outcome.  Each camera object carries how it was  *)
(* built: by which call, from which object, at which index.                *)
(***************************************************************************)
Object(obj, kind, src, idx) == [obj |-> obj, kind |-> kind, src |-> src, idx |-> idx]

Call(op, self, f, idx, shapes, p, B, err, ret) ==
    [op |-> op, self |-> self, f |-> f, idx |-> idx, shapes |-> shapes, p |-> p,
     B |-> B, err |-> err, ret |-> ret, ids |-> <<>>, step |-> last.step + 1]

NoCall ==
    [op |-> "init", self |-> 0, f |-> Scalar(0), idx |-> 0, shapes |-> <<>>,
     p |-> NoParams, B |-> 0, err |-> OK, ret |-> 0, ids |-> <<>>, step |-> 0]

CamIds == 1 .. Len(cams)

ListIds == 1 .. Len(lists)

Obj(i) == cams[i].obj

CanStep == last.step < MaxSteps

\* The effect of a call on the receiver `self` (0 if none) whose result is r:
\* the heap it leaves, and the camera object it returns, if any.
Returns(r, op, self, f, idx, shapes, p, B) ==
    /\ heap' = r.heap
    /\ cams' = IF r.err = OK /\ r.ref = "new"
               THEN Append(cams, Object(r.cam, op, self, idx))
               ELSE cams
    /\ last' = Call(op, self, f, idx, shapes, p, B, r.err,
                    IF r.err # OK THEN 0
                    ELSE IF r.ref = "self" THEN self
                    ELSE Len(cams) + 1)

\* PinholeCamera(intrinsics, extrinsics, height, width) on four tensors the
\* caller builds for it; the tensors of a failed construction are dropped.
Construct(h, shapes) ==
    LET n == Len(h)
        created == h \o <<CallerData(n + 1, shapes[1]), CallerData(n + 2, shapes[2]),
                          CallerData(n + 3, shapes[3]), CallerData(n + 4, shapes[4])>>
        Rest(r) == IF r.err = OK THEN r ELSE Result(h, r.err, NoCam)
    IN  Bind(CameraInit(created, Contiguous(n + 1, shapes[1]), Contiguous(n + 2, shapes[2]),
                        Contiguous(n + 3, shapes[3]), Contiguous(n + 4, shapes[4])),
             Rest)

Init ==
    /\ heap = <<>>
    /\ cams = <<>>
    /\ lists = <<>>
    /\ last = NoCall

New(shapes) ==
    /\ CanStep
    /\ \E r \in {Construct(heap, shapes)} :
           Returns(r, "new", 0, Scalar(0), 0, shapes, NoParams, 0)
    /\ UNCHANGED lists

NewFromParameters(p, B) ==
    /\ CanStep
    /\ \E r \in {FromParameters(heap, p, B)} :
           Returns(r, "from_parameters", 0, Scalar(0), 0, <<>>, p, B)
    /\ UNCHANGED lists

\* c.intrinsics
GetIntrinsics(c) ==
    /\ CanStep
    /\ last' = Call("intrinsics", c, Scalar(0), 0, <<>>, NoParams, 0,
                    ReadIntrinsics(Obj(c)), 0)
    /\ UNCHANGED <<heap, cams, lists>>

\* c.extrinsics
GetExtrinsics(c) ==
    /\ CanStep
    /\ last' = Call("extrinsics", c, Scalar(0), 0, <<>>, NoParams, 0,
                    ReadExtrinsics(Obj(c)), 0)
    /\ UNCHANGED <<heap, cams, lists>>

\* c.clone()
CallClone(c) ==
    /\ CanStep
    /\ \E r \in {Clone(heap, Obj(c))} :
           Returns(r, "clone", c, Scalar(0), 0, <<>>, NoParams, 0)
    /\ UNCHANGED lists

\* c.scale(f)
CallScale(c, f) ==
    /\ CanStep
    /\ \E r \in {Scale(heap, Obj(c), f)} :
           Returns(r, "scale", c, f, 0, <<>>, NoParams, 0)
    /\ UNCHANGED lists

\* c.scale_(f)
CallScaleInPlace(c, f) ==
    /\ CanStep
    /\ \E r \in {ScaleInPlace(heap, Obj(c), f)} :
           Returns(r, "scale_", c, f, 0, <<>>, NoParams, 0)
    /\ UNCHANGED lists

\* c.tx = v
SetTx(c, v) ==
    /\ CanStep
    /\ \E r \in {SetTranslation(heap, Obj(c), 0, v)} :
           Returns(r, "tx", c, v, 0, <<>>, NoParams, 0)
    /\ UNCHANGED lists

\* c.ty = v
SetTy(c, v) ==
    /\ CanStep
    /\ \E r \in {SetTranslation(heap, Obj(c), 1, v)} :
           Returns(r, "ty", c, v, 0, <<>>, NoParams, 0)
    /\ UNCHANGED lists

\* c.tz = v
SetTz(c, v) ==
    /\ CanStep
    /\ \E r \in {SetTranslation(heap, Obj(c), 2, v)} :
           Returns(r, "tz", c, v, 0, <<>>, NoParams, 0)
    /\ UNCHANGED lists

\* PinholeCamerasList([cams[ids[1]], ..., cams[ids[N]]])
NewList(ids) ==
    /\ CanStep
    /\ \E r \in {InitializeParameters(heap, [i \in 1 .. Len(ids) |-> Obj(ids[i])])} :
           /\ heap' = r.heap
           /\ lists' = IF r.err = OK THEN Append(lists, [obj |-> r.cam, src |-> ids])
                       ELSE lists
           /\ last' = [Call("list", 0, Scalar(0), 0, <<>>, NoParams, 0, r.err,
                            IF r.err = OK THEN Len(lists) + 1 ELSE 0)
                         EXCEPT !.ids = ids]
    /\ UNCHANGED cams

\* l.get_pinhole(idx)
CallGetPinhole(l, idx) ==
    /\ CanStep
    /\ \E r \in {GetPinhole(heap, lists[l].obj, idx)} :
           Returns(r, "get_pinhole", l, Scalar(0), idx, <<>>, NoParams, 0)
    /\ UNCHANGED lists

(***************************************************************************)
(* The constructor and the validating properties.                          *)
(***************************************************************************)
NextCtor ==
    \/ \E shapes \in CtorCases : New(shapes)
    \/ \E c \in CamIds : GetIntrinsics(c)
    \/ \E c \in CamIds : GetExtrinsics(c)

SpecCtor == Init /\ [][NextCtor]_vars

(***************************************************************************)
(* One camera, built by the constructor or by from_parameters, and the     *)
(* cameras cloned and scaled from it.                                      *)
(***************************************************************************)
P0 == Params(100, 90, 50, 40, 60, 80, 1, 2, 3)

FirstCameras ==
    {Construct(<<>>, ValidShapes(B)) : B \in BatchSizes}
        \cup {FromParameters(<<>>, P0, B) : B \in BatchSizes}

InitCamera ==
    \E r \in FirstCameras :
        /\ heap = r.heap
        /\ cams = <<Object(r.cam, "new", 0, 0)>>
        /\ lists = <<>>
        /\ last = NoCall

NextCamera ==
    \/ \E c \in CamIds : CallClone(c)
    \/ \E c \in CamIds, f \in Factors : CallScale(c, f)
    \/ \E c \in CamIds, f \in Factors : CallScaleInPlace(c, f)
    \/ \E c \in CamIds, v \in Translations : SetTx(c, v)
    \/ \E c \in CamIds, v \in Translations : SetTy(c, v)
    \/ \E c \in CamIds, v \in Translations : SetTz(c, v)

SpecCamera == InitCamera /\ [][NextCamera]_vars

(***************************************************************************)
(* Three cameras, built by from_parameters and by the constructor, the     *)
(* lists built from them, and the cameras taken out of the lists.          *)
(***************************************************************************)
P1 == Params(120, 110, 30, 20, 48, 64, -1, 0, 5)

\* The cameras there are to build lists from: two of batch size A and one of
\* batch size B.
PoolOf(A, B) ==
    LET Third(first, second) ==
            LET Rest(third) ==
                    [heap |-> third.heap,
                     cams |-> <<Object(first.cam, "from_parameters", 0, 0),
                                Object(second.cam, "new", 0, 0),
                                Object(third.cam, "from_parameters", 0, 0)>>]
            IN  Bind(FromParameters(second.heap, P1, B), Rest)
        Second(first) ==
            LET Rest(second) == Third(first, second)
            IN  Bind(Construct(first.heap, ValidShapes(A)), Rest)
    IN  Bind(FromParameters(<<>>, P0, A), Second)

Pools == {PoolOf(A, B) : A \in BatchSizes, B \in BatchSizes}

InitList ==
    \E pool \in Pools :
        /\ heap = pool.heap
        /\ cams = pool.cams
        /\ lists = <<>>
        /\ last = NoCall

\* The lists of cameras to build a PinholeCamerasList from.
CameraLists == {<<>>, <<2>>, <<2, 1>>, <<1, 2, 3>>}

Indexes == -4 .. 3

\* The cameras taken out of a list.
Pinholes == {c \in CamIds : cams[c].kind = "get_pinhole"}

NextList ==
    \/ \E ids \in CameraLists : NewList(ids)
    \/ \E l \in ListIds, idx \in Indexes : CallGetPinhole(l, idx)
    \/ \E c \in Pinholes, f \in Factors : CallScaleInPlace(c, f)
    \/ \E c \in Pinholes, v \in Translations : SetTx(c, v)
    \/ \E c \in Pinholes, v \in Translations : SetTy(c, v)
    \/ \E c \in Pinholes, v \in Translations : SetTz(c, v)

SpecList == InitList /\ [][NextList]_vars

(***************************************************************************)
(* from_parameters, on parameters drawn at the start.                      *)
(***************************************************************************)
InitParams ==
    /\ heap = <<>>
    /\ cams = <<>>
    /\ lists = <<>>
    /\ \E p \in ParamSets, B \in BatchSizes :
          last = [NoCall EXCEPT !.p = p, !.B = B]

NextParams ==
    /\ last.op = "init"
    /\ NewFromParameters(last.p, last.B)

SpecParams == InitParams /\ [][NextParams]_vars

(***************************************************************************)
(* Properties.                                                             *)
(***************************************************************************)
\* The four attributes of a camera, by value.
CamValue(h, c) == <<Value(h, c.K), Value(h, c.E), Value(h, c.h), Value(h, c.w)>>

\* The storages of a camera's attributes.
Sids(c) == {c.K.sid, c.E.sid, c.h.sid, c.w.sid}

\* A camera as the class documents it: Bx4x4 matrices and B sizes.
ValidCamera(c) ==
    /\ Rank(c.K.shape) = 3
    /\ c.K.shape[1] >= 1
    /\ c.K.shape = <<c.K.shape[1], 4, 4>>
    /\ c.E.shape = c.K.shape
    /\ c.h.shape = <<c.K.shape[1]>>
    /\ c.w.shape = <<c.K.shape[1]>>

LeadingSizes(shapes) == {shapes[i][1] : i \in 1 .. Len(shapes)}

HasLeading(shapes) == \A i \in 1 .. Len(shapes) : Rank(shapes[i]) >= 1

\* C1: constructing a camera from arguments whose leading (batch) sizes are
\* not all equal raises ValueError and returns no camera, so every camera has
\* its four attributes of one leading size.
C1_BatchMismatchRejected ==
    /\ (last.op = "new" /\ HasLeading(last.shapes)
            /\ Cardinality(LeadingSizes(last.shapes)) > 1)
        => (last.err = "ValueError" /\ last.ret = 0)
    /\ \A c \in CamIds :
          Cardinality(LeadingSizes(<<Obj(c).K.shape, Obj(c).E.shape,
                                     Obj(c).h.shape, Obj(c).w.shape>>)) = 1

\* A shape that is not that of a batch of 4x4 matrices.
BadMatrixShape(shape) ==
    \/ Rank(shape) \notin {3, 4}
    \/ Suffix(shape, 2) # <<4, 4>>

\* C2: constructing a camera, and reading its intrinsics or extrinsics,
\* raises ValueError whenever the intrinsics or the extrinsics has a rank
\* outside {3, 4} or trailing dimensions other than 4x4.
C2_BadMatrixRejected ==
    /\ (last.op = "new" /\ CheckValid(last.shapes) = OK
            /\ (BadMatrixShape(last.shapes[1]) \/ BadMatrixShape(last.shapes[2])))
        => (last.err = "ValueError" /\ last.ret = 0)
    /\ (last.op = "intrinsics" /\ BadMatrixShape(Obj(last.self).K.shape))
        => last.err = "ValueError"
    /\ (last.op = "extrinsics" /\ BadMatrixShape(Obj(last.self).E.shape))
        => last.err = "ValueError"

\* The factor of batch element b: a factor of one element is that of every
\* batch element.
FactorOf(f, b) == IF Len(f.data) = 1 THEN f.data[1] ELSE f.data[b + 1]

\* A factor of shape (), (1) or (B).
FactorFor(f, c) == f.shape \in {<<>>, <<1>>, <<BatchSize(c)>>}

ScaledPlaces == {<<0, 0>>, <<1, 1>>, <<0, 2>>, <<1, 2>>}

\* The camera s of heap hs is the camera c of heap hc scaled by f.
IsScaled(hs, s, hc, c, f) ==
    /\ s.K.shape = c.K.shape /\ s.h.shape = c.h.shape /\ s.w.shape = c.w.shape
    /\ \A idx \in Indices(c.K.shape) :
          At(hs, s.K, idx) =
              IF <<idx[2], idx[3]>> \in ScaledPlaces
              THEN FactorOf(f, idx[1]) * At(hc, c.K, idx)
              ELSE At(hc, c.K, idx)
    /\ \A b \in 0 .. BatchSize(c) - 1 :
          /\ At(hs, Fx(s), <<b>>) = FactorOf(f, b) * At(hc, Fx(c), <<b>>)
          /\ At(hs, Fy(s), <<b>>) = FactorOf(f, b) * At(hc, Fy(c), <<b>>)
          /\ At(hs, Cx(s), <<b>>) = FactorOf(f, b) * At(hc, Cx(c), <<b>>)
          /\ At(hs, Cy(s), <<b>>) = FactorOf(f, b) * At(hc, Cy(c), <<b>>)
          /\ At(hs, s.h, <<b>>) = FactorOf(f, b) * At(hc, c.h, <<b>>)
          /\ At(hs, s.w, <<b>>) = FactorOf(f, b) * At(hc, c.w, <<b>>)
    /\ Value(hs, s.E) = Value(hc, c.E)

\* C3: c.scale(f) on a valid camera c returns a new camera whose fx, fy, cx,
\* cy, height and width are f times those of c for every batch element, whose
\* other intrinsics entries and extrinsics equal those of c, and leaves c's
\* own attributes unchanged.
C3_ScaleReturnsScaledCopy ==
    [][(last'.op = "scale" /\ ValidCamera(Obj(last'.self))
            /\ FactorFor(last'.f, Obj(last'.self)))
        => /\ last'.err = OK
           /\ last'.ret = Len(cams) + 1
           /\ Len(cams') = Len(cams) + 1
           /\ IsScaled(heap', cams'[last'.ret].obj, heap, Obj(last'.self), last'.f)
           /\ CamValue(heap', Obj(last'.self)) = CamValue(heap, Obj(last'.self))]_vars

C3_Witness ==
    /\ last.op = "scale" /\ last.err = OK
    /\ BatchSize(Obj(last.self)) = 2 /\ last.f.shape = <<2>>
    /\ At(heap, Fx(Obj(last.ret)), <<1>>) = 3 * At(heap, Fx(Obj(last.self)), <<1>>)

\* c.clone().scale(f)
ScaleOfClone(h, c, f) ==
    LET Rest(k) == IF k.err # OK THEN k ELSE Scale(k.heap, k.cam, f)
    IN  Bind(Clone(h, c), Rest)

\* C4: c.scale_(f) on a valid camera c leaves c with the attribute values of
\* c.clone().scale(f), returns c itself and creates no object; fx, fy, cx, cy,
\* height and width read from c afterwards are the scaled ones.  It raises
\* exactly when c.clone().scale(f) does.
C4_ScaleInPlaceAsScaleOfClone ==
    [][(last'.op = "scale_" /\ ValidCamera(Obj(last'.self)))
        => \E c \in {Obj(last'.self)} :
           \E s \in {ScaleOfClone(heap, c, last'.f)} :
               /\ (s.err = OK) = (last'.err = OK)
               /\ cams' = cams
               /\ last'.err = OK
                    => /\ last'.ret = last'.self
                       /\ CamValue(heap', c) = CamValue(s.heap, s.cam)
                       /\ Value(heap', Fx(c)) = Value(s.heap, Fx(s.cam))
                       /\ Value(heap', Fy(c)) = Value(s.heap, Fy(s.cam))
                       /\ Value(heap', Cx(c)) = Value(s.heap, Cx(s.cam))
                       /\ Value(heap', Cy(c)) = Value(s.heap, Cy(s.cam))
                       /\ IsScaled(heap', c, heap, c, last'.f)]_vars

C4_Witness ==
    /\ last.op = "scale_" /\ last.err = OK /\ last.ret = last.self
    /\ BatchSize(Obj(last.self)) = 2 /\ last.f.shape = <<2>>

Mutators == {"scale_", "tx", "ty", "tz"}

\* C5: c.clone() returns a new camera with the attribute values of c, and
\* afterwards no in-place call (scale_, the tx, ty and tz setters) on the
\* clone changes an attribute of the original, nor one on the original an
\* attribute of the clone.
C5_CloneIsIndependent ==
    [][/\ last'.op = "clone"
            => /\ last'.err = OK
               /\ last'.ret = Len(cams) + 1
               /\ Len(cams') = Len(cams) + 1
               /\ CamValue(heap', cams'[last'.ret].obj) = CamValue(heap, Obj(last'.self))
               /\ CamValue(heap', Obj(last'.self)) = CamValue(heap, Obj(last'.self))
               /\ Sids(cams'[last'.ret].obj) \cap Sids(Obj(last'.self)) = {}
       /\ \A k \in CamIds :
             (cams[k].kind = "clone" /\ last'.op \in Mutators)
                => /\ last'.self = k
                      => CamValue(heap', Obj(cams[k].src)) = CamValue(heap, Obj(cams[k].src))
                   /\ last'.self = cams[k].src
                      => CamValue(heap', Obj(k)) = CamValue(heap, Obj(k))]_vars

C5_Witness ==
    /\ last.op \in Mutators /\ last.err = OK
    /\ cams[last.self].kind = "clone"
    /\ CamValue(heap, Obj(last.self)) # CamValue(heap, Obj(cams[last.self].src))

ScaledReads(h, c) ==
    <<Value(h, Fx(c)), Value(h, Fy(c)), Value(h, Cx(c)), Value(h, Cy(c)),
      Value(h, c.h), Value(h, c.w)>>

\* C9: a camera s returned by c.scale(f) has the extrinsics of c in every
\* later state, whatever the tx, ty and tz setters and scale_ do to either,
\* and scale_ on one of the two leaves fx, fy, cx, cy, height and width of the
\* other unchanged.
C9_ScaleSharesOnlyExtrinsics ==
    [][\A s \in CamIds :
          cams[s].kind = "scale"
            => /\ Obj(s).E = Obj(cams[s].src).E
               /\ Value(heap', Obj(s).E) = Value(heap', Obj(cams[s].src).E)
               /\ Sids(Obj(s)) \cap Sids(Obj(cams[s].src)) = {Obj(s).E.sid}
               /\ (last'.op = "scale_" /\ last'.self = s)
                    => ScaledReads(heap', Obj(cams[s].src)) = ScaledReads(heap, Obj(cams[s].src))
               /\ (last'.op = "scale_" /\ last'.self = cams[s].src)
                    => ScaledReads(heap', Obj(s)) = ScaledReads(heap, Obj(s))]_vars

C9_Witness ==
    /\ last.op = "tx" /\ last.err = OK
    /\ cams[last.self].kind = "scale"
    /\ \A b \in 0 .. BatchSize(Obj(last.self)) - 1 :
          At(heap, Tx(Obj(cams[last.self].src)), <<b>>) = 7

\* Cameras of one batch size.
CommonBatch(ids) ==
    /\ \A i \in 1 .. Len(ids) : ValidCamera(Obj(ids[i]))
    /\ \A i, j \in 1 .. Len(ids) : BatchSize(Obj(ids[i])) = BatchSize(Obj(ids[j]))

\* C6: a PinholeCamerasList built from a non-empty list of N valid cameras of
\* one batch size has num_cameras = N, and get_pinhole(i), for i in 0..N-1,
\* returns a valid camera with the attribute values of the i-th camera of the
\* list.
C6_ListKeepsCamerasInOrder ==
    (last.op = "list" /\ Len(last.ids) >= 1 /\ CommonBatch(last.ids))
        => /\ last.err = OK
           /\ last.ret = Len(lists)
           /\ lists[last.ret].src = last.ids
           /\ NumCameras(lists[last.ret].obj) = Len(last.ids)
           /\ \A i \in 0 .. Len(last.ids) - 1 :
                 \E r \in {GetPinhole(heap, lists[last.ret].obj, i)} :
                     /\ r.err = OK
                     /\ ValidCamera(r.cam)
                     /\ CamValue(r.heap, r.cam) = CamValue(heap, Obj(last.ids[i + 1]))

C6_Witness ==
    /\ last.op = "list" /\ last.err = OK
    /\ Len(last.ids) = 3 /\ BatchSize(Obj(last.ids[1])) = 2
    /\ NumCameras(lists[last.ret].obj) = 3

\* The matrices that from_parameters documents.
CameraMatrix(p) ==
    << <<p.fx, 0, p.cx, 0>>, <<0, p.fy, p.cy, 0>>, <<0, 0, 1, 0>>, <<0, 0, 0, 1>> >>

PoseMatrix(p) ==
    << <<1, 0, 0, p.tx>>, <<0, 1, 0, p.ty>>, <<0, 0, 1, p.tz>>, <<0, 0, 0, 1>> >>

\* C7: from_parameters(fx, fy, cx, cy, height, width, tx, ty, tz, B), B >= 1,
\* returns a camera whose intrinsics[b] is [[fx,0,cx,0],[0,fy,cy,0],[0,0,1,0],
\* [0,0,0,1]] and whose extrinsics[b] is [[1,0,0,tx],[0,1,0,ty],[0,0,1,tz],
\* [0,0,0,1]] for every batch element b.
C7_FromParametersMatrices ==
    last.op = "from_parameters"
        => /\ last.err = OK
           /\ last.ret \in CamIds
           /\ Obj(last.ret).K.shape = <<last.B, 4, 4>>
           /\ Obj(last.ret).E.shape = <<last.B, 4, 4>>
           /\ \A b \in 0 .. last.B - 1 : \A r, c \in 0 .. 3 :
                 /\ At(heap, Obj(last.ret).K, <<b, r, c>>) = CameraMatrix(last.p)[r + 1][c + 1]
                 /\ At(heap, Obj(last.ret).E, <<b, r, c>>) = PoseMatrix(last.p)[r + 1][c + 1]

C7_Witness ==
    /\ last.op = "from_parameters" /\ last.err = OK /\ last.B = 2
    /\ At(heap, Obj(last.ret).K, <<1, 0, 2>>) = 50
    /\ At(heap, Obj(last.ret).E, <<1, 0, 3>>) = -1

\* C8 as claimed: get_pinhole(i) raises IndexError and returns no camera for
\* every integer i outside 0..N-1, negative ones included.
C8_EveryOtherIndexRejected ==
    (last.op = "get_pinhole"
        /\ last.idx \notin 0 .. NumCameras(lists[last.self].obj) - 1)
        => (last.err = "IndexError" /\ last.ret = 0)

\* C8, amended: get_pinhole(i) raises IndexError and returns no camera for
\* every integer i < -N or i >= N; for -N <= i < 0 it returns the camera of
\* index N + i.
C8_OutOfRangeRejected ==
    last.op = "get_pinhole"
        => LET l == lists[last.self].obj
               N == NumCameras(l)
           IN  /\ (last.idx < -N \/ last.idx >= N)
                    => (last.err = "IndexError" /\ last.ret = 0)
               /\ (last.idx >= -N /\ last.idx < 0)
                    => /\ last.err = OK
                       /\ last.ret \in CamIds
                       /\ \E r \in {GetPinhole(heap, l, N + last.idx)} :
                              /\ r.err = OK
                              /\ CamValue(heap, Obj(last.ret)) = CamValue(r.heap, r.cam)

C8_Witness ==
    /\ last.op = "get_pinhole" /\ last.err = "IndexError"
    /\ NumCameras(lists[last.self].obj) = 2
    /\ last.idx = -3

\* What get_pinhole(i) returns in heap h, by value.
Taken(h, l, i) ==
    LET Rest(r) == IF r.err = OK THEN CamValue(r.heap, r.cam) ELSE <<>>
    IN  Bind(GetPinhole(h, l, i), Rest)

\* C10: the camera v that get_pinhole(i) returned is a view of the list: in
\* every later state get_pinhole(i) returns the values that v has, so those of
\* the in-place calls (scale_, the tx, ty and tz setters) made on v, and such
\* a call on v leaves what get_pinhole(j) returns unchanged for every other
\* camera index j.
C10_PinholeIsView ==
    [][\A v \in CamIds :
          cams[v].kind = "get_pinhole"
            => \E l \in {lists[cams[v].src].obj} :
               \E i \in {NormIndex(cams[v].idx, NumCameras(l))} :
                   /\ Taken(heap', l, i) = CamValue(heap', Obj(v))
                   /\ (last'.op \in Mutators /\ last'.self = v)
                        => \A j \in 0 .. NumCameras(l) - 1 :
                              j # i => Taken(heap', l, j) = Taken(heap, l, j)
                   /\ (last'.op = "scale_" /\ last'.self = v /\ last'.err = OK)
                        => \E r \in {GetPinhole(heap', l, i)} :
                              IsScaled(r.heap, r.cam, heap, Obj(v), last'.f)]_vars

C10_Witness ==
    /\ last.op = "scale_" /\ last.err = OK
    /\ cams[last.self].kind = "get_pinhole"
    /\ NumCameras(lists[cams[last.self].src].obj) = 2
    /\ BatchSize(Obj(last.self)) = 2


\* C11: from_parameters(..., height, width, ..., batch_size = B), B >= 1,
\* returns a camera with height[b] = height and width[b] = width for every
\* batch element b in 0..B-1.
C11_FromParametersSizes ==
    last.op = "from_parameters"
        => /\ last.err = OK
           /\ last.ret \in CamIds
           /\ Obj(last.ret).h.shape = <<last.B>>
           /\ Obj(last.ret).w.shape = <<last.B>>
           /\ \A b \in 0 .. last.B - 1 :
                 /\ At(heap, Obj(last.ret).h, <<b>>) = last.p.height
                 /\ At(heap, Obj(last.ret).w, <<b>>) = last.p.width

====
